---- MODULE Spec2Model ----
(***************************************************************************)
(* Model of the training harness: ModelBase.attack / ModelBase.restore     *)
(* (src/model_base.py) and the Trainer.train loop with its scheduler,      *)
(* logging and checkpoint helpers (src/trainer.py).                        *)
(*                                                                         *)
(* Tensors are one-element tensors over the integers; NaN is a sentinel.   *)
(* Parameter names and target names are sequences of characters so that    *)
(* Python's `emb_name in name` is a real substring test.                   *)
(***************************************************************************)
EXTENDS Integers, Sequences, FiniteSets, TLC

\* ---------------------------------------------------------------- bounds
MaxTargets == 2      \* longest target-name list handed to attack/restore
MaxK == 2            \* largest gradient_accumulation_steps
MaxN == 4            \* largest len(train_dataloader)
MaxE == 2            \* largest configured num_train_epochs
MaxSteps == 1        \* largest configured max_steps
MaxLog == 2          \* largest logging_steps
MaxLoss == 2         \* eval losses are drawn from 1..MaxLoss

\* ------------------------------------------------------ program constants
Inf == 1000          \* float('inf'), larger than every eval loss
NaN == 0 - 999       \* a NaN gradient / norm
DefaultEpsilon == 1  \* attack's default epsilon

\* ------------------------------------------------------------- variables
VARIABLES
    args,              \* the CfgNode: configuration of the run
    disk,              \* the directory at continue_training_path
    pc,                \* position of the control flow
    error,             \* the exception that ended the run, or "none"
    params,            \* model.named_parameters(): name -> data, grad, flag
    backup,            \* ModelBase.backup
    pre_attack,        \* history: parameter values when attack was entered
    attack_eps,        \* history: the epsilon of the last attack call
    attack_names,      \* the target-name list of the standalone calls
    optimizer,         \* the optimizer's state
    scheduler,         \* self.scheduler, if the attribute exists
    messages,          \* logger messages emitted so far
    num_train_epochs,  \* args.training.num_train_epochs as the loop uses it
    t_total,           \* total optimization steps as logged
    epoch, step, global_step,
    last,              \* loss_item, outputs, labels: the batch they stem from
    dev_best_loss,     \* self.dev_best_loss
    best_ckpt,         \* the checkpoint under best_save_path
    counters,          \* history: how often each operation has run
    window,            \* history: operations since the accumulation group began
    last_log,          \* history: the last logging step's loss, prior best, write
    device,            \* args.model.device, which train may reassign
    model_mode,        \* the model's compute device and its training flag
    train_loader,      \* the training data supply the loop iterates
    best_eval_results, \* self.best_eval_results: the loss of the best report
    hist               \* history: observations the properties refer to

vars == <<args, disk, pc, error, params, backup, pre_attack, attack_eps,
          attack_names, optimizer, scheduler, messages, num_train_epochs,
          t_total, epoch, step, global_step, last, dev_best_loss, best_ckpt,
          counters, window, last_log, device, model_mode, train_loader,
          best_eval_results, hist>>

advVars == <<params, backup, pre_attack, attack_eps>>
loopVars == <<num_train_epochs, t_total, epoch, step, global_step, last,
              dev_best_loss, best_ckpt, counters, window, last_log>>
loadVars == <<optimizer, scheduler, messages>>
runVars == <<device, model_mode, train_loader, best_eval_results, hist>>

\* ------------------------------------------------------ names and tensors
\* `emb_name in name` for Python strings
IsSubstr(s, t) ==
    \E i \in 0..(Len(t) - Len(s)) : SubSeq(t, i + 1, i + Len(s)) = s

Abs(x) == IF x < 0 THEN 0 - x ELSE x

\* torch.norm of a one-element gradient
Norm(g) == IF g = NaN THEN NaN ELSE Abs(g)

IsNan(x) == x = NaN

\* epsilon * param.grad / norm, for a one-element gradient with norm # 0
RAt(epsilon, g, norm) == (epsilon * g) \div norm

EmptyBackup == [n \in {} |-> 0]

Put(f, key, v) == [n \in (DOMAIN f) \cup {key} |-> IF n = key THEN v ELSE f[n]]

\* ----------------------------------------------------- ModelBase.attack
\* the body of the inner loop for one (param, emb_name) pair; st is the
\* pair <<param, backup>>
AttackOne(st, name, emb_name, epsilon) ==
    LET param == st[1]
        bk == st[2]
    IN  IF param.requires_grad /\ IsSubstr(emb_name, name)
        THEN LET bk2 == Put(bk, name, param.data)
                 norm == Norm(param.grad)
             IN  IF norm # 0 /\ ~IsNan(norm)
                 THEN <<[param EXCEPT !.data = param.data + RAt(epsilon, param.grad, norm)], bk2>>
                 ELSE <<param, bk2>>
        ELSE st

\* the inner loop `for emb_name in emb_names`, from index i on
RECURSIVE AttackNames(_, _, _, _, _)
AttackNames(st, name, emb_names, i, epsilon) ==
    IF i > Len(emb_names) THEN st
    ELSE AttackNames(AttackOne(st, name, emb_names[i], epsilon),
                     name, emb_names, i + 1, epsilon)

\* the outer loop over named_parameters(); todo is the set of names left
RECURSIVE AttackParams(_, _, _, _, _)
AttackParams(ps, bk, todo, emb_names, epsilon) ==
    IF todo = {} THEN <<ps, bk>>
    ELSE LET name == CHOOSE n \in todo : TRUE
             r == AttackNames(<<ps[name], bk>>, name, emb_names, 1, epsilon)
         IN  AttackParams([ps EXCEPT ![name] = r[1]], r[2],
                          todo \ {name}, emb_names, epsilon)

Attack(ps, bk, emb_names, epsilon) ==
    AttackParams(ps, bk, DOMAIN ps, emb_names, epsilon)

\* ---------------------------------------------------- ModelBase.restore
\* a parameter the loop of restore reaches: trainable, some name matches
Matches(ps, name, emb_names) ==
    /\ ps[name].requires_grad
    /\ \E i \in 1..Len(emb_names) : IsSubstr(emb_names[i], name)

\* `assert name in self.backup` holds for every parameter restore reaches
RestoreAsserts(ps, bk, emb_names) ==
    \A name \in DOMAIN ps : Matches(ps, name, emb_names) => name \in DOMAIN bk

\* param.data = self.backup[name] for every matching parameter
RestoreParams(ps, bk, emb_names) ==
    [name \in DOMAIN ps |->
        IF Matches(ps, name, emb_names)
        THEN [ps[name] EXCEPT !.data = bk[name]]
        ELSE ps[name]]


\* ------------------------------------------------- the model and its data
Data(ps) == [n \in DOMAIN ps |-> ps[n].data]

\* the model the subclass builds in init_model: a trainable word embedding,
\* a frozen position embedding and a trainable classifier
InitialParams ==
    (<<"w", "e">> :> [requires_grad |-> TRUE, data |-> 10, grad |-> 0]) @@
    (<<"p", "e">> :> [requires_grad |-> FALSE, data |-> 20, grad |-> 0]) @@
    (<<"f", "c">> :> [requires_grad |-> TRUE, data |-> 30, grad |-> 0])

\* loss.backward(): every trainable parameter accumulates one unit of gradient
Backward(ps) ==
    [n \in DOMAIN ps |->
        IF ps[n].requires_grad THEN [ps[n] EXCEPT !.grad = ps[n].grad + 1]
        ELSE ps[n]]

\* self.model.zero_grad()
ZeroGrad(ps) == [n \in DOMAIN ps |-> [ps[n] EXCEPT !.grad = 0]]

\* self.optimizer.step(): a descent step of unit rate on trainable parameters
OptimizerStep(ps) ==
    [n \in DOMAIN ps |->
        IF ps[n].requires_grad THEN [ps[n] EXCEPT !.data = ps[n].data - ps[n].grad]
        ELSE ps[n]]

\* self.model.load_state_dict(weights)
LoadStateDict(ps, weights) ==
    [n \in DOMAIN ps |-> [ps[n] EXCEPT !.data = weights[n]]]

\* -------------------------------------------------------------- errors
NoError == [type |-> "none", line |-> 0, choices |-> {}]
Raise(type, line) == [type |-> type, line |-> line, choices |-> {}]

\* ----------------------------------------------------- checkpoints on disk
NoState == [present |-> FALSE, name |-> "none", state |-> "none"]
NoCheckpoint ==
    [exists |-> FALSE, model |-> Data(InitialParams),
     optimizer |-> NoState, scheduler |-> NoState]

\* the weights a continuation checkpoint holds
SavedWeights == [n \in DOMAIN InitialParams |-> InitialParams[n].data + 5]

\* ------------------------------------------------------- scheduler state
NoFeed == <<"none", 0 - 1, 0 - 1>>
NoScheduler == [exists |-> FALSE, origin |-> "none", fed |-> NoFeed]
FreshScheduler == [exists |-> TRUE, origin |-> "fresh", fed |-> NoFeed]

\* ------------------------------------------------- Trainer.from_pretrained
\* returns the model, the optimizer, the scheduler, the messages and the
\* exception, if any, of the call
FromPretrained(a, d, ps, opt, sch, msgs) ==
    LET ps2 == LoadStateDict(ps, d.model)
        optSame == a.optimizer_type = d.optimizer.name
        opt2 == IF ~a.ab_initio /\ d.optimizer.present /\ optSame
                THEN d.optimizer.state ELSE opt
        msgs2 == IF ~a.ab_initio /\ d.optimizer.present
                 THEN msgs \cup {IF optSame THEN "Loading optimizer state dict"
                                 ELSE "Your optimizer is different from the saved"}
                 ELSE msgs
        schRead == ~a.ab_initio /\ d.scheduler.present /\ a.use_scheduler
        schSame == a.scheduler_type = d.scheduler.name
        msgs3 == IF schRead
                 THEN msgs2 \cup {IF schSame THEN "Loading scheduler state dict"
                                  ELSE "Your scheduler is different from the saved"}
                 ELSE msgs2
    IN  IF schRead /\ schSame
        THEN \* self.scheduler.load_state_dict(...): the attribute is only
             \* set by create_scheduler, which train calls afterwards
             IF sch.exists
             THEN [params |-> ps2, optimizer |-> opt2, messages |-> msgs3,
                   scheduler |-> [sch EXCEPT !.origin = d.scheduler.state],
                   error |-> NoError]
             ELSE [params |-> ps2, optimizer |-> opt2, messages |-> msgs3,
                   scheduler |-> sch, error |-> Raise("AttributeError", 383)]
        ELSE [params |-> ps2, optimizer |-> opt2, messages |-> msgs3,
              scheduler |-> sch, error |-> NoError]

\* --------------------------------------------------------- Trainer.metric
MetricKeys == {"acc", "f1", "precision", "recall"}

\* the report computed from the outputs and labels of batch b
Metric(b) == [key \in MetricKeys |-> <<key, b[1], b[2]>>]

\* ---------------------------------------- Trainer.step_Plateau_scheduler
\* the key the code reads from the report for a monitored name
ReportKey(metric) ==
    CASE metric = "acc" -> "acc"
      [] metric = "f1" -> "f1"
      [] metric = "precision" -> "p"
      [] metric = "recall" -> "r"
      [] OTHER -> "none"

\* the value fed to scheduler.step, or the exception
StepPlateauScheduler(metric, b) ==
    IF metric = "loss"
    THEN [fed |-> <<"loss", b[1], b[2]>>, error |-> NoError]
    ELSE LET m == Metric(b)
             key == ReportKey(metric)
         IN  IF metric \in {"acc", "f1", "precision", "recall"}
             THEN IF key \in DOMAIN m
                  THEN [fed |-> m[key], error |-> NoError]
                  ELSE [fed |-> NoFeed, error |-> Raise("KeyError", IF metric = "precision" THEN 441 ELSE 443)]
             ELSE [fed |-> NoFeed,
                   error |-> [type |-> "TypeError", line |-> 445, choices |-> DOMAIN m]]

\* ----------------------------------------------------------- Trainer.step
StepScheduler(a, b) ==
    IF a.scheduler_type = "plateau"
    THEN StepPlateauScheduler(a.metric, b)
    ELSE [fed |-> <<"step", b[1], b[2]>>, error |-> NoError]

\* ------------------------------------------------------ the training loop
\* the boundary test taken at the first batch of a group instead of the last
IsBoundaryFirst(s, k) == s % k = 0

\* the boundary test with the accumulation factor ignored
IsBoundaryEveryBatch(s, k) == (s + 1) % 1 = 0

\* (step + 1) % gradient_accumulation_steps == 0
IsBoundary(s, k) == (s + 1) % k = 0

\* the improvement test with an equal loss counted as an improvement
IsImprovementOrEqual(eval_loss, best) == eval_loss <= best

\* eval_loss < self.dev_best_loss
IsImprovement(eval_loss, best) == eval_loss < best

\* global_step % logging_steps == 0, with logging enabled
IsLoggingStep(gs, logging_steps) == logging_steps > 0 /\ gs % logging_steps = 0


\* ------------------------------------------------- device and model mode
Cpu == "cpu"

\* the first entry of args.model.gpus, which DataParallel makes the device
FirstGpu == "cuda:1"

\* model.cpu(), model.to(d)
MoveTo(m, d) == [m EXCEPT !.device = d]

\* model.eval(), model.train()
ModelEval(m) == [m EXCEPT !.training = FALSE]
ModelTrain(m) == [m EXCEPT !.training = TRUE]

\* ------------------------------------------------ Trainer.save_pretrained
SavePretrained(a, old, ps, opt, sch) ==
    [exists |-> TRUE,
     model |-> Data(ps),
     optimizer |-> [present |-> TRUE, name |-> a.optimizer_type, state |-> opt],
     scheduler |-> IF a.use_scheduler
                   THEN [present |-> TRUE, name |-> a.scheduler_type, state |-> sch.origin]
                   ELSE old.scheduler]

\* save_pretrained without the move back to the device
SaveDeviceStays(m, dev) == MoveTo(m, Cpu)

\* save_pretrained, lines 355 and 361: to the CPU and back to the device
SaveDevice(m, dev) == MoveTo(MoveTo(m, Cpu), dev)

\* ------------------------------------------------------- Trainer.evaluate
\* an evaluation batch that also runs the backward pass
EvaluateStepWithGrad(ps) == Backward(ps)

\* evaluate_step under torch.no_grad(): forward and loss, no gradient
EvaluateStep(ps) == ps

\* no parameter holds a perturbation that restore left behind
Clean(residue) == \A n \in DOMAIN residue : residue[n] = 0

\* what an evaluation pass must leave alone
Snap(st) ==
    [global_step |-> st.global_step, dev_best_loss |-> st.dev_best_loss,
     best_eval_results |-> st.best_eval_results, best_ckpt |-> st.best_ckpt,
     params |-> st.params]

\* evaluate(dataloader, data_type) on the run state st
Evaluate(st, data_type) ==
    [st EXCEPT !.model_mode = ModelTrain(ModelEval(@)),
               !.params = EvaluateStep(@),
               !.counters = IF data_type = "dev"
                            THEN [@ EXCEPT !.evals = @ + 1]
                            ELSE [@ EXCEPT !.tests = @ + 1]]

\* ------------------------------------------------------------ Trainer.log
\* one logging step on the run state st whose evaluation yields eval_loss
Log(st, eval_loss, a, opt, sch, dev) ==
    LET e == Evaluate(st, "dev")
        ll == [loss |-> eval_loss, prior |-> e.dev_best_loss,
               wrote |-> IsImprovement(eval_loss, e.dev_best_loss),
               at |-> e.global_step]
        h1 == [e.hist EXCEPT
                 !.last_eval = [kept |-> Snap(st) = Snap(e),
                                grads |-> \E n \in DOMAIN e.params : e.params[n].grad # 0,
                                training |-> e.model_mode.training,
                                device |-> e.model_mode.device,
                                backup |-> DOMAIN backup,
                                clean |-> Clean(st.hist.residue)],
                 !.best_eval = IF eval_loss < @.loss
                               THEN [loss |-> eval_loss, weights |-> Data(e.params)]
                               ELSE @]
        saved == SaveDevice(e.model_mode, dev)
    IN  IF IsImprovement(eval_loss, e.dev_best_loss)
        THEN [e EXCEPT !.dev_best_loss = eval_loss,
                       !.best_ckpt = SavePretrained(a, e.best_ckpt, e.params, opt, sch),
                       !.model_mode = saved,
                       !.best_eval_results = eval_loss,
                       !.counters = [@ EXCEPT !.saves = @ + 1],
                       !.last_log = ll,
                       !.hist = [h1 EXCEPT !.save_dev = <<e.model_mode.device, saved.device>>]]
        ELSE [e EXCEPT !.last_log = ll, !.hist = h1]

\* ----------------------------------------- Trainer.load_model, predict
\* load_model that keeps the weights the model holds
LoadModelKeeps(ps, ckpt) == ps

\* load_model, line 391: the weights under best_save_path
LoadModel(ps, ckpt) == LoadStateDict(ps, ckpt.model)

\* predict on the run state st: load the best checkpoint, evaluate on test
Predict(st, dev) ==
    IF ~st.best_ckpt.exists
    THEN [st |-> [st EXCEPT !.model_mode = MoveTo(@, Cpu)],
          error |-> Raise("FileNotFoundError", 391)]
    ELSE LET loaded == [st EXCEPT !.params = LoadModel(@, st.best_ckpt),
                                  !.model_mode = MoveTo(MoveTo(@, Cpu), dev)]
             e == Evaluate(loaded, "test")
         IN  [st |-> [e EXCEPT !.hist = [@ EXCEPT !.predicted =
                          [done |-> TRUE, weights |-> Data(loaded.params),
                           final |-> Data(st.params),
                           kept |-> Snap(loaded) = Snap(e) /\ e.model_mode.training]]],
              error |-> NoError]

\* ------------------------------------- shuffle_data_between_epoch, guarded
\* the hook called without the except clause
ShuffleUncaught(hook, loader) ==
    IF hook THEN [loader |-> "reshuffled", warned |-> FALSE, error |-> NoError]
    ELSE [loader |-> loader, warned |-> FALSE, error |-> Raise("NotImplementedError", 56)]

\* lines 203-206: the hook, whose NotImplementedError is logged and dropped
Shuffle(hook, loader) ==
    IF hook THEN [loader |-> "reshuffled", warned |-> FALSE, error |-> NoError]
    ELSE [loader |-> loader, warned |-> TRUE, error |-> NoError]

\* ------------------------------------------------------ continuation path
\* the test of line 124 left out
PathExistsAlways(d) == TRUE

\* os.path.exists(continue_training_path)
PathExists(d) == d.exists

\* the run state the logging and prediction steps work on
RunState(gs) ==
    [params |-> params, model_mode |-> model_mode, dev_best_loss |-> dev_best_loss,
     best_ckpt |-> best_ckpt, best_eval_results |-> best_eval_results,
     global_step |-> gs, counters |-> counters, last_log |-> last_log,
     hist |-> hist]

\* the run state st becomes the state of the run
Becomes(st) ==
    /\ params' = st.params
    /\ model_mode' = st.model_mode
    /\ dev_best_loss' = st.dev_best_loss
    /\ best_ckpt' = st.best_ckpt
    /\ best_eval_results' = st.best_eval_results
    /\ global_step' = st.global_step
    /\ counters' = st.counters
    /\ last_log' = st.last_log
    /\ hist' = st.hist

NoHist(ps) ==
    [ops |-> <<>>,
     residue |-> [n \in DOMAIN ps |-> 0],
     best_eval |-> [loss |-> Inf, weights |-> Data(ps)],
     last_eval |-> [kept |-> TRUE, grads |-> FALSE, training |-> TRUE,
                    device |-> "none", backup |-> {}, clean |-> TRUE],
     save_dev |-> <<"none", "none">>,
     attack_entry |-> {},
     opt_entry |-> [backup |-> {}, clean |-> TRUE],
     predicted |-> [done |-> FALSE, weights |-> Data(ps), final |-> Data(ps),
                    kept |-> TRUE]]

NewWindow == [opt |-> 0, sched |-> 0, zero |-> 0, bwd |-> 0]

Fail(e) == pc' = "failed" /\ error' = e

\* ----------------------------------------------------------- Trainer.train
\* lines 119-127: seeds, model, optimizer, loss function, continuation
Begin ==
    /\ pc = "train"
    /\ IF args.continue_training
       THEN IF ~PathExists(disk)
            THEN /\ Fail(Raise("FileNotFoundError", 125))
                 /\ optimizer' = "fresh"
                 /\ UNCHANGED <<params, scheduler, messages, model_mode>>
            ELSE LET r == FromPretrained(args, disk, params, "fresh", scheduler, messages)
                 IN  /\ params' = r.params
                     /\ optimizer' = r.optimizer
                     /\ scheduler' = r.scheduler
                     /\ messages' = r.messages
                     /\ error' = r.error
                     /\ model_mode' = MoveTo(MoveTo(model_mode, Cpu), device)
                     /\ pc' = IF r.error = NoError THEN "setup" ELSE "failed"
       ELSE /\ optimizer' = "fresh"
            /\ pc' = "setup"
            /\ UNCHANGED <<params, scheduler, messages, error, model_mode>>
    /\ UNCHANGED <<args, disk, backup, pre_attack, attack_eps, attack_names>>
    /\ UNCHANGED <<device, train_loader, best_eval_results, hist>>
    /\ UNCHANGED loopVars

\* lines 128-169: dataloaders, t_total, data parallel, scheduler, counters,
\* zero_grad
Setup ==
    /\ pc = "setup"
    /\ LET perEpoch == args.N \div args.k
           loaded == [counters EXCEPT !.loaders = @ + 3]
       IN  IF args.max_steps > 0 /\ perEpoch = 0
           THEN /\ Fail(Raise("ZeroDivisionError", 134))
                /\ counters' = loaded
                /\ UNCHANGED <<num_train_epochs, t_total, scheduler, params, epoch,
                               step, global_step, dev_best_loss, device, model_mode>>
           ELSE /\ t_total' = IF args.max_steps > 0 THEN args.max_steps
                              ELSE perEpoch * args.epochs
                /\ num_train_epochs' = IF args.max_steps > 0
                                       THEN (args.max_steps \div perEpoch) + 1
                                       ELSE args.epochs
                /\ device' = IF args.dp THEN FirstGpu ELSE device
                /\ model_mode' = IF args.dp THEN MoveTo(model_mode, FirstGpu)
                                 ELSE model_mode
                /\ scheduler' = IF args.use_scheduler THEN FreshScheduler ELSE scheduler
                /\ params' = ZeroGrad(params)
                /\ counters' = [loaded EXCEPT !.zero = @ + 1]
                /\ global_step' = 0 /\ dev_best_loss' = Inf
                /\ epoch' = 0 /\ step' = 0
                /\ pc' = "training_step"
                /\ UNCHANGED error
    /\ UNCHANGED <<args, disk, backup, pre_attack, attack_eps, attack_names,
                   optimizer, messages, last, best_ckpt, window, last_log,
                   train_loader, best_eval_results, hist>>

\* line 174 and training_step: forward, loss, backward
TrainingStep ==
    /\ pc = "training_step"
    /\ params' = Backward(params)
    /\ last' = <<epoch, step>>
    /\ counters' = [counters EXCEPT !.fwd = @ + 1, !.pending = @ + 1]
    /\ window' = IF step % args.k = 0
                 THEN [NewWindow EXCEPT !.bwd = 1]
                 ELSE [window EXCEPT !.bwd = @ + 1]
    /\ hist' = [hist EXCEPT !.ops = <<>>]
    /\ pc' = IF args.do_adv THEN "do_adv" ELSE "accumulate"
    /\ UNCHANGED <<args, disk, error, backup, pre_attack, attack_eps, attack_names,
                   optimizer, scheduler, messages, num_train_epochs, t_total,
                   epoch, step, global_step, dev_best_loss, best_ckpt, last_log,
                   device, model_mode, train_loader, best_eval_results>>

\* do_adv, lines 238-239: the attack on the configured targets
DoAdvAttack ==
    /\ pc = "do_adv"
    /\ LET r == Attack(params, backup, args.adv_target, DefaultEpsilon)
       IN  /\ params' = r[1]
           /\ backup' = r[2]
    /\ pre_attack' = Data(params)
    /\ attack_eps' = DefaultEpsilon
    /\ counters' = [counters EXCEPT !.attacks = @ + 1]
    /\ hist' = [hist EXCEPT !.attack_entry = DOMAIN backup]
    /\ pc' = "adv_backward"
    /\ UNCHANGED <<args, disk, error, attack_names, optimizer, scheduler, messages,
                   num_train_epochs, t_total, epoch, step, global_step, last,
                   dev_best_loss, best_ckpt, window, last_log,
                   device, model_mode, train_loader, best_eval_results>>

\* do_adv, lines 240-244: the adversarial forward and backward, then restore
DoAdvRestore ==
    /\ pc = "adv_backward"
    /\ LET ps == Backward(params)
       IN  IF RestoreAsserts(ps, backup, args.adv_target)
           THEN LET restored == RestoreParams(ps, backup, args.adv_target)
                IN  /\ params' = restored
                    /\ backup' = EmptyBackup
                    /\ hist' = [hist EXCEPT !.residue =
                                   [n \in DOMAIN @ |-> @[n] + restored[n].data - pre_attack[n]]]
                    /\ pc' = "accumulate"
                    /\ UNCHANGED error
           ELSE /\ params' = ps
                /\ Fail(Raise("AssertionError", 28))
                /\ UNCHANGED <<backup, hist>>
    /\ counters' = [counters EXCEPT !.fwd = @ + 1]
    /\ UNCHANGED <<args, disk, pre_attack, attack_eps, attack_names, optimizer,
                   scheduler, messages, num_train_epochs, t_total, epoch, step,
                   global_step, last, dev_best_loss, best_ckpt, window, last_log,
                   device, model_mode, train_loader, best_eval_results>>

\* lines 177-188: the accumulation boundary
Accumulate ==
    /\ pc = "accumulate"
    /\ IF IsBoundary(step, args.k)
       THEN LET stepped == OptimizerStep(params)
                c2 == [counters EXCEPT !.clip = @ + 1, !.opt = @ + 1,
                                       !.applied = counters.pending]
                w2 == [window EXCEPT !.opt = @ + 1]
                h2 == [hist EXCEPT !.ops = <<"clip", "optimizer">>,
                                   !.opt_entry = [backup |-> DOMAIN backup,
                                                  clean |-> Clean(hist.residue)]]
            IN  IF args.use_scheduler /\ args.step_between_batch
                THEN IF args.step_between_epoch
                     THEN /\ Fail(Raise("TypeError", 186))
                          /\ params' = stepped
                          /\ counters' = c2 /\ window' = w2 /\ hist' = h2
                          /\ UNCHANGED scheduler
                     ELSE LET r == StepScheduler(args, last)
                          IN  IF r.error = NoError
                              THEN /\ scheduler' = [scheduler EXCEPT !.fed = r.fed]
                                   /\ params' = ZeroGrad(stepped)
                                   /\ counters' = [c2 EXCEPT !.sched = @ + 1, !.zero = @ + 1,
                                                             !.pending = 0]
                                   /\ window' = [w2 EXCEPT !.sched = @ + 1, !.zero = @ + 1]
                                   /\ hist' = [h2 EXCEPT !.ops = @ \o <<"scheduler", "zero_grad">>]
                                   /\ pc' = "count"
                                   /\ UNCHANGED error
                              ELSE /\ Fail(r.error)
                                   /\ params' = stepped
                                   /\ counters' = c2 /\ window' = w2 /\ hist' = h2
                                   /\ UNCHANGED scheduler
                ELSE /\ params' = ZeroGrad(stepped)
                     /\ counters' = [c2 EXCEPT !.zero = @ + 1, !.pending = 0]
                     /\ window' = [w2 EXCEPT !.zero = @ + 1]
                     /\ hist' = [h2 EXCEPT !.ops = @ \o <<"zero_grad">>]
                     /\ pc' = "count"
                     /\ UNCHANGED <<scheduler, error>>
       ELSE /\ pc' = "count"
            /\ UNCHANGED <<params, counters, window, scheduler, error, hist>>
    /\ UNCHANGED <<args, disk, backup, pre_attack, attack_eps, attack_names,
                   optimizer, messages, num_train_epochs, t_total, epoch, step,
                   global_step, last, dev_best_loss, best_ckpt, last_log,
                   device, model_mode, train_loader, best_eval_results>>

\* lines 189-194: the global step counter and the periodic logging step
CountAndLog ==
    /\ pc = "count"
    /\ IF IsLoggingStep(global_step + 1, args.logging_steps)
       THEN \E eval_loss \in 1..MaxLoss :
               Becomes(Log(RunState(global_step + 1), eval_loss, args,
                           optimizer, scheduler, device))
       ELSE /\ global_step' = global_step + 1
            /\ UNCHANGED <<params, model_mode, dev_best_loss, best_ckpt,
                           best_eval_results, counters, last_log, hist>>
    /\ IF step + 1 < args.N
       THEN step' = step + 1 /\ pc' = "training_step"
       ELSE step' = step /\ pc' = "epoch_end"
    /\ UNCHANGED <<args, disk, error, backup, pre_attack, attack_eps,
                   attack_names, optimizer, scheduler, messages, num_train_epochs,
                   t_total, epoch, last, window, device, train_loader>>

\* lines 195-206: the epoch trigger of the scheduler, the reshuffle, then
\* the next epoch
EpochEnd ==
    /\ pc = "epoch_end"
    /\ LET next == IF epoch + 1 < num_train_epochs THEN "training_step" ELSE "final_log"
           trigger == args.use_scheduler /\ args.step_between_epoch
           r == IF ~trigger THEN [fed |-> scheduler.fed, error |-> NoError]
                ELSE IF args.step_between_batch
                     THEN [fed |-> NoFeed, error |-> Raise("TypeError", 197)]
                     ELSE StepScheduler(args, last)
           sh == IF args.shuffle THEN Shuffle(args.shuffle_hook, train_loader)
                 ELSE [loader |-> train_loader, warned |-> FALSE, error |-> NoError]
           c2 == IF trigger THEN [counters EXCEPT !.sched = @ + 1] ELSE counters
           w2 == IF trigger THEN [window EXCEPT !.sched = @ + 1] ELSE window
       IN  IF r.error # NoError
           THEN /\ Fail(r.error)
                /\ UNCHANGED <<scheduler, counters, window, epoch, step, messages,
                               train_loader>>
           ELSE /\ scheduler' = [scheduler EXCEPT !.fed = r.fed]
                /\ window' = w2
                /\ IF sh.error # NoError
                   THEN /\ Fail(sh.error)
                        /\ counters' = c2
                        /\ UNCHANGED <<epoch, step, messages, train_loader>>
                   ELSE /\ train_loader' = sh.loader
                        /\ messages' = IF sh.warned
                                       THEN messages \cup {"shuffle_data_between_epoch not implemented, skipped"}
                                       ELSE messages
                        /\ counters' = IF sh.warned THEN [c2 EXCEPT !.warns = @ + 1] ELSE c2
                        /\ epoch' = epoch + 1 /\ step' = 0
                        /\ pc' = next
                        /\ UNCHANGED error
    /\ UNCHANGED <<args, disk, params, backup, pre_attack, attack_eps, attack_names,
                   optimizer, num_train_epochs, t_total, global_step,
                   last, dev_best_loss, best_ckpt, last_log,
                   device, model_mode, best_eval_results, hist>>

\* lines 207-218: the logging step at the end of the run, then the
\* prediction pass
FinalLog ==
    /\ pc = "final_log"
    /\ \E eval_loss \in 1..MaxLoss :
          LET logged == Log(RunState(global_step), eval_loss, args,
                            optimizer, scheduler, device)
              r == IF args.predict THEN Predict(logged, device)
                   ELSE [st |-> logged, error |-> NoError]
          IN  /\ Becomes(r.st)
              /\ error' = r.error
              /\ pc' = IF r.error = NoError THEN "done" ELSE "failed"
    /\ UNCHANGED <<args, disk, backup, pre_attack, attack_eps,
                   attack_names, optimizer, scheduler, messages, num_train_epochs,
                   t_total, epoch, step, last, window, device, train_loader>>

\* ------------------------------------- attack and restore called directly
AttackCall ==
    /\ pc = "model"
    /\ \E epsilon \in {DefaultEpsilon, DefaultEpsilon + 1} :
          LET r == Attack(params, backup, attack_names, epsilon)
          IN  /\ params' = r[1]
              /\ backup' = r[2]
              /\ attack_eps' = epsilon
    /\ pre_attack' = Data(params)
    /\ pc' = "attacked"
    /\ UNCHANGED <<args, disk, error, attack_names>>
    /\ UNCHANGED loadVars
    /\ UNCHANGED loopVars
    /\ UNCHANGED runVars

RestoreCall ==
    /\ pc = "attacked"
    /\ IF RestoreAsserts(params, backup, attack_names)
       THEN /\ params' = RestoreParams(params, backup, attack_names)
            /\ backup' = EmptyBackup
            /\ pc' = "restored"
            /\ UNCHANGED error
       ELSE /\ Fail(Raise("AssertionError", 28))
            /\ UNCHANGED <<params, backup>>
    /\ UNCHANGED <<args, disk, pre_attack, attack_eps, attack_names>>
    /\ UNCHANGED loadVars
    /\ UNCHANGED loopVars
    /\ UNCHANGED runVars


\* ------------------------------------------------------- configurations
PlateauNames == {"loss", "acc", "f1", "precision", "recall"}

\* fields that the code never reads under a configuration hold a fixed value
Canonical(a) ==
    /\ (~a.use_scheduler =>
            /\ a.scheduler_type = "linear" /\ ~a.step_between_batch
            /\ ~a.step_between_epoch)
    /\ (a.scheduler_type = "plateau") = (a.metric # "none")
    /\ ((a.use_scheduler /\ a.scheduler_type = "plateau"
            /\ ~a.step_between_batch /\ ~a.step_between_epoch) => a.metric = "loss")
    /\ (a.do_adv = (a.adv_target # <<>>))
    /\ (a.max_steps > 0 => a.epochs = 1)
    /\ (~a.continue_training => ~a.ab_initio)

AdvTargets == {<<>>, << <<"e">> >>, << <<"e">>, <<"w">> >>}

ArgsOf(conts, ks, ns, es, ms, logs, advs, types, metrics) ==
    {a \in [continue_training : conts, ab_initio : BOOLEAN,
            optimizer_type : {"adamw"},
            use_scheduler : BOOLEAN, scheduler_type : types,
            metric : metrics,
            step_between_batch : BOOLEAN, step_between_epoch : BOOLEAN,
            k : ks, N : ns, epochs : es, max_steps : ms,
            logging_steps : logs, do_adv : BOOLEAN, adv_target : advs,
            device : {"cuda:0"}, dp : {FALSE}, predict : {FALSE},
            shuffle : {FALSE}, shuffle_hook : {FALSE},
            adv_epsilon : {DefaultEpsilon}] :
        Canonical(a)}

\* runs from scratch, over every loop shape and scheduler configuration
TrainArgs ==
    ArgsOf({FALSE}, 1..MaxK, 1..MaxN, 1..MaxE, 0..MaxSteps, 0..MaxLog, AdvTargets,
           {"linear", "plateau"}, PlateauNames \cup {"bogus", "none"})

\* continued runs over a short loop
LoadArgs ==
    ArgsOf({TRUE}, {1}, 1..2, {1}, {0}, 0..1, {<<>>, << <<"e">> >>},
           {"linear", "plateau"}, {"loss", "none"})

\* runs from scratch without a scheduler, over data parallel, prediction,
\* reshuffling and the configured epsilon
HookArgs ==
    {x \in {[a EXCEPT !.dp = d, !.predict = p, !.shuffle = s, !.shuffle_hook = h,
                      !.adv_epsilon = e] :
                a \in ArgsOf({FALSE}, 1..2, 1..3, 1..2, {0}, 0..2,
                             {<<>>, << <<"e">> >>}, {"linear"}, {"none"}),
                d \in BOOLEAN, p \in BOOLEAN, s \in BOOLEAN, h \in BOOLEAN,
                e \in {DefaultEpsilon, 2}} :
        /\ ~x.use_scheduler
        /\ x.shuffle_hook => x.shuffle
        /\ ~x.do_adv => x.adv_epsilon = DefaultEpsilon}

SavedStates(names) ==
    {NoState} \cup {[present |-> TRUE, name |-> n, state |-> "saved"] : n \in names}

\* what continue_training_path can hold
Checkpoints ==
    {NoCheckpoint} \cup
    {[exists |-> TRUE, model |-> SavedWeights, optimizer |-> o, scheduler |-> s] :
        o \in SavedStates({"adamw", "sgd"}), s \in SavedStates({"linear", "plateau"})}

NoCounters ==
    [fwd |-> 0, opt |-> 0, sched |-> 0, zero |-> 0, clip |-> 0,
     evals |-> 0, saves |-> 0, attacks |-> 0, tests |-> 0, loaders |-> 0,
     warns |-> 0, pending |-> 0, applied |-> 0]

InitRun ==
    /\ pc = "train"
    /\ error = NoError
    /\ params = InitialParams
    /\ backup = EmptyBackup
    /\ pre_attack = Data(InitialParams)
    /\ attack_eps = 0
    /\ attack_names = <<>>
    /\ optimizer = "none"
    /\ scheduler = NoScheduler
    /\ messages = {}
    /\ num_train_epochs = args.epochs
    /\ t_total = 0
    /\ epoch = 0 /\ step = 0 /\ global_step = 0
    /\ last = <<0 - 1, 0 - 1>>
    /\ dev_best_loss = Inf
    /\ best_ckpt = NoCheckpoint
    /\ counters = NoCounters
    /\ window = NewWindow
    /\ last_log = [loss |-> 0, prior |-> Inf, wrote |-> FALSE, at |-> 0]
    /\ device = args.device
    /\ model_mode = [device |-> args.device, training |-> TRUE]
    /\ train_loader = "original"
    /\ best_eval_results = 0
    /\ hist = NoHist(params)

Init ==
    /\ args \in TrainArgs
    /\ disk = NoCheckpoint
    /\ InitRun

InitLoad ==
    /\ args \in LoadArgs
    /\ disk \in Checkpoints
    /\ InitRun

InitHook ==
    /\ args \in HookArgs
    /\ disk = NoCheckpoint
    /\ InitRun

\* the models attack and restore are called on directly
ParamNames == {<<"w", "e">>, <<"p", "e">>}
TargetNames == {<<"e">>, <<"w">>, <<"w", "e">>, <<"x">>}
TargetLists == UNION {[1..n -> TargetNames] : n \in 0..MaxTargets}
Tensors == [requires_grad : BOOLEAN, data : {0 - 1, 4}, grad : {NaN, 0, 0 - 2, 3}]

InitModel ==
    /\ args \in ArgsOf({FALSE}, {1}, {1}, {1}, {0}, {0}, {<<>>}, {"linear"}, {"none"})
    /\ ~args.use_scheduler
    /\ disk = NoCheckpoint
    /\ pc = "model"
    /\ error = NoError
    /\ params \in [ParamNames -> Tensors]
    /\ backup = EmptyBackup
    /\ pre_attack = Data(params)
    /\ attack_eps = 0
    /\ attack_names \in TargetLists
    /\ optimizer = "none"
    /\ scheduler = NoScheduler
    /\ messages = {}
    /\ num_train_epochs = args.epochs
    /\ t_total = 0
    /\ epoch = 0 /\ step = 0 /\ global_step = 0
    /\ last = <<0 - 1, 0 - 1>>
    /\ dev_best_loss = Inf
    /\ best_ckpt = NoCheckpoint
    /\ counters = NoCounters
    /\ window = NewWindow
    /\ last_log = [loss |-> 0, prior |-> Inf, wrote |-> FALSE, at |-> 0]
    /\ device = args.device
    /\ model_mode = [device |-> args.device, training |-> TRUE]
    /\ train_loader = "original"
    /\ best_eval_results = 0
    /\ hist = NoHist(params)

Next ==
    \/ Begin
    \/ Setup
    \/ TrainingStep
    \/ DoAdvAttack
    \/ DoAdvRestore
    \/ Accumulate
    \/ CountAndLog
    \/ EpochEnd
    \/ FinalLog

NextModel ==
    \/ AttackCall
    \/ RestoreCall

Spec == Init /\ [][Next]_vars
SpecLoad == InitLoad /\ [][Next]_vars
SpecModel == InitModel /\ [][NextModel]_vars
SpecHook == InitHook /\ [][Next]_vars


\* ======================================================== the claims
InLoop == pc \in {"training_step", "do_adv", "adv_backward", "accumulate",
                  "count", "epoch_end", "final_log", "done"}

\* C1: restore(names) after attack(names, eps) leaves every matching
\* trainable parameter at its value just before attack, and the backup
\* mapping is empty, for every target-name list.
C1_AttackRestoreSymmetry ==
    pc = "restored" =>
        /\ \A n \in DOMAIN params :
              Matches(params, n, attack_names) => params[n].data = pre_attack[n]
        /\ DOMAIN backup = {}

\* C2: within one accumulation group of k consecutive batches there is
\* exactly one optimizer step, at the group's last batch, and at most one
\* schedule advance; gradients are zeroed only after that optimizer step and
\* never between the batches of a group.
C2_AccumulationInvariant ==
    InLoop =>
        /\ window.opt <= 1 /\ window.sched <= 1
        /\ window.zero <= window.opt
        /\ pc \in {"do_adv", "adv_backward", "accumulate"} =>
              /\ window.opt = 0 /\ window.zero = 0
              /\ window.bwd = (step % args.k) + 1
              /\ \A n \in DOMAIN params :
                    params[n].requires_grad => params[n].grad >= (step % args.k) + 1
        /\ pc = "count" =>
              IF (step + 1) % args.k = 0
              THEN window.opt = 1 /\ window.zero = 1 /\ window.bwd = args.k
              ELSE window.opt = 0 /\ window.zero = 0

\* a group of two batches has been completed in the second epoch of a run
\* whose epochs hold three batches, with the schedule advanced at the boundary
C2_Witness ==
    /\ pc = "count" /\ args.k = 2 /\ args.N = 3 /\ epoch = 1 /\ step = 1
    /\ window.opt = 1 /\ window.sched = 1 /\ window.zero = 1

\* C3: with both scheduler triggers set the run fails with the configuration
\* error before any forward/backward pass and any optimizer step.
C3_TriggerErrorBeforeTraining ==
    (args.use_scheduler /\ args.step_between_batch /\ args.step_between_epoch) =>
        /\ counters.fwd = 0 /\ counters.opt = 0
        /\ pc # "done"

\* C4: the best eval loss never increases, and a logging step writes a
\* checkpoint if and only if its eval loss is strictly less than the best
\* eval loss held just before it.
C4_BestLossMonotone ==
    [][/\ dev_best_loss' <= dev_best_loss
       /\ IF counters'.evals # counters.evals
          THEN (counters'.saves = counters.saves + 1) <=> (last_log'.loss < dev_best_loss)
          ELSE counters'.saves = counters.saves
       /\ counters'.saves \in {counters.saves, counters.saves + 1}]_vars

\* a logging step whose eval loss equals the best loss has written nothing
C4_Witness ==
    /\ counters.evals >= 2 /\ counters.saves = 1
    /\ last_log.loss = last_log.prior /\ last_log.loss = dev_best_loss

\* C5: with a plateau schedule every monitored name of loss, acc, f1,
\* precision, recall advances the schedule without error and feeds it the
\* value of that name computed from the batch at hand.
C5_PlateauFeedsMonitoredValue ==
    (args.use_scheduler /\ args.scheduler_type = "plateau"
        /\ args.metric \in PlateauNames
        /\ ~(args.step_between_batch /\ args.step_between_epoch)) =>
        /\ error.type \notin {"KeyError", "TypeError"}
        /\ counters.sched > 0 => scheduler.fed[1] = args.metric
        /\ (pc = "count" /\ args.step_between_batch /\ (step + 1) % args.k = 0) =>
              scheduler.fed = <<args.metric, epoch, step>>

\* C6: with a plateau schedule and an unknown monitored name the run fails
\* with a configuration error that lists loss, acc, f1, precision, recall,
\* before any training step or optimizer step.
C6_UnknownMetricRejected ==
    (args.use_scheduler /\ args.scheduler_type = "plateau"
        /\ args.metric \notin PlateauNames) =>
        /\ counters.fwd = 0 /\ counters.opt = 0
        /\ pc # "done"
        /\ error.line = 445 => error.choices = PlateauNames

\* C7: without adversarial training a run of E epochs over N batches with
\* factor k ends with E * floor(N / k) optimizer steps and global step E * N.
C7_StepCounts ==
    (pc = "done" /\ ~args.do_adv) =>
        /\ counters.opt = num_train_epochs * (args.N \div args.k)
        /\ global_step = num_train_epochs * args.N

\* the scenario of the specification: N = 4, k = 2, E = 1
C7_Witness ==
    /\ pc = "done" /\ ~args.do_adv
    /\ args.N = 4 /\ args.k = 2 /\ num_train_epochs = 1
    /\ counters.opt = 2 /\ global_step = 4

\* C8: attack on a matching trainable parameter whose gradient norm is zero
\* or NaN leaves the value unchanged and records the snapshot, and restore
\* then leaves the pre-attack value; otherwise the value is changed by
\* epsilon * gradient / norm.
C8_DegenerateNormSkipped ==
    \A n \in DOMAIN params :
        Matches(params, n, attack_names) =>
            LET norm == Norm(params[n].grad)
            IN  IF norm = 0 \/ IsNan(norm)
                THEN /\ pc = "attacked" =>
                          /\ params[n].data = pre_attack[n]
                          /\ n \in DOMAIN backup
                          /\ backup[n] = pre_attack[n]
                     /\ pc = "restored" => params[n].data = pre_attack[n]
                ELSE pc = "attacked" =>
                          params[n].data = pre_attack[n] + RAt(attack_eps, params[n].grad, norm)

\* C9: continuing from a checkpoint whose optimizer tag differs from the
\* configured type succeeds with the checkpoint's weights, a fresh optimizer
\* state and a message; with equal tags the saved optimizer state is loaded.
C9_StaleOptimizerSkipped ==
    (args.continue_training /\ ~args.ab_initio /\ disk.exists
        /\ disk.optimizer.present /\ pc # "train") =>
        /\ error.line \notin 363..385
        /\ pc = "setup" => Data(params) = disk.model
        /\ IF disk.optimizer.name # args.optimizer_type
           THEN /\ optimizer = "fresh"
                /\ "Your optimizer is different from the saved" \in messages
           ELSE optimizer = "saved"

\* C10: continuing with scheduling enabled from a checkpoint whose scheduler
\* tag equals the configured type does not fail and the training loop starts
\* from the saved schedule state; with different tags the saved state is
\* skipped and the loop runs with a fresh schedule.
C10_SchedulerResumed ==
    (args.continue_training /\ ~args.ab_initio /\ args.use_scheduler
        /\ disk.exists /\ disk.scheduler.present /\ pc # "train") =>
        /\ error.type # "AttributeError"
        /\ InLoop =>
              scheduler.origin = IF disk.scheduler.name = args.scheduler_type
                                 THEN "saved" ELSE "fresh"

\* C11: every checkpoint save returns with the model on the device it was
\* on when the save was called, the configured device, so that no training
\* or evaluation step ever sees the model on the CPU.
C11_SaveKeepsDevice ==
    /\ hist.save_dev[1] = hist.save_dev[2]
    /\ counters.saves > 0 => hist.save_dev[2] = device
    /\ counters.evals > 0 => hist.last_eval.device = device
    /\ InLoop => model_mode.device = device /\ device # Cpu

\* under data parallel two saves have returned and the loop trains on
C11_Witness ==
    /\ args.dp /\ counters.saves >= 2 /\ pc = "training_step"
    /\ hist.save_dev = <<FirstGpu, FirstGpu>>

\* C12: an evaluation pass leaves the global step, the best eval loss, the
\* best report, the best checkpoint, the parameters and the accumulated
\* gradients as they were, also inside an accumulation window, and returns
\* with the model in training mode.
C12_EvaluateLeavesTrainingState ==
    /\ counters.evals > 0 =>
          /\ hist.last_eval.kept
          /\ hist.last_eval.training
    /\ hist.predicted.kept
    /\ model_mode.training

\* an evaluation has run while gradients of an open window were held
C12_Witness ==
    /\ counters.evals > 0 /\ args.k = 2 /\ last_log.at % 2 = 1
    /\ hist.last_eval.grads /\ hist.last_eval.kept

\* C13: with adversarial training the backup mapping is non-empty only
\* between an attack and its restore: it is empty at every attack entry, and
\* at every optimizer step, evaluation pass and checkpoint save it is empty
\* and every parameter holds its unperturbed value.
C13_BackupOnlyDuringAttack ==
    args.do_adv =>
        /\ pc \notin {"adv_backward", "failed"} => DOMAIN backup = {}
        /\ hist.attack_entry = {}
        /\ hist.opt_entry.backup = {}
        /\ hist.last_eval.backup = {}
        /\ hist.opt_entry.clean
        /\ hist.last_eval.clean

\* C14: continuation from a path that does not exist stops the run with a
\* fatal error before any dataloader is built, any training step runs or any
\* checkpoint is written, and the run goes no further.
C14_MissingPathIsFatal ==
    (args.continue_training /\ ~disk.exists /\ pc # "train") =>
        /\ pc = "failed"
        /\ error = Raise("FileNotFoundError", 125)
        /\ counters.loaders = 0 /\ counters.fwd = 0
        /\ counters.saves = 0 /\ ~best_ckpt.exists

\* the run has stopped at the test of the continuation path
C14_Witness ==
    /\ args.continue_training /\ ~disk.exists
    /\ pc = "failed" /\ error.line = 125

\* C15: with reshuffling enabled and the hook not implemented every epoch
\* logs a warning and keeps the training data supply, and the run finishes
\* with the batches and optimizer steps of a run without reshuffling.
C15_MissingShuffleHookSkipped ==
    (args.shuffle /\ ~args.shuffle_hook) =>
        /\ error.type # "NotImplementedError"
        /\ pc # "failed"
        /\ train_loader = "original"
        /\ InLoop => counters.warns = epoch
        /\ pc = "done" =>
              /\ counters.warns = args.epochs
              /\ global_step = args.epochs * args.N
              /\ counters.opt = args.epochs * (args.N \div args.k)

\* two epochs have ended with a warning each and the run has finished
C15_Witness ==
    /\ args.shuffle /\ ~args.shuffle_hook
    /\ pc = "done" /\ counters.warns = 2 /\ args.epochs = 2
    /\ "shuffle_data_between_epoch not implemented, skipped" \in messages

\* C16: on an accumulation boundary the loop clips, steps the optimizer,
\* advances the schedule (batch trigger only) and zeroes the gradients, in
\* this order and once each; off a boundary none of them happens; with the
\* batch trigger the schedule advances as often as the optimizer steps.
C16_BoundaryOrder ==
    /\ (pc = "count" \/ (pc = "failed" /\ error.line \in {186, 441, 443, 445})) =>
          hist.ops = IF (step + 1) % args.k = 0
                     THEN <<"clip", "optimizer">>
                          \o (IF args.use_scheduler /\ args.step_between_batch
                              THEN <<"scheduler">> ELSE <<>>)
                          \o <<"zero_grad">>
                     ELSE <<>>
    /\ (args.use_scheduler /\ args.step_between_batch) =>
          counters.sched = counters.opt

\* C17: with the epoch trigger the schedule advances once per epoch, after
\* the last batch and never inside the batch loop, and is fed the values of
\* the last accumulation boundary of the epoch, for every N and k.
C17_EpochTriggerFeedsLastBoundary ==
    (args.use_scheduler /\ args.step_between_epoch /\ ~args.step_between_batch) =>
        /\ InLoop => counters.sched = epoch
        /\ counters.sched > 0 =>
              /\ scheduler.fed[2] = epoch - 1
              /\ scheduler.fed[3] = args.k * (args.N \div args.k) - 1

C19_AttackUsesConfiguredEpsilon ==
    counters.attacks > 0 => attack_eps = args.adv_epsilon

\* C20: every optimizer step applies the gradients of exactly k batches and
\* every batch is applied before the run finishes: nothing is carried over
\* an epoch end and nothing is left at the end of the run.
C20_EveryStepAppliesKBatches ==
    /\ counters.opt > 0 => counters.applied = args.k
    /\ pc = "done" => counters.pending = 0

\* C21: a finished run has executed as many optimizer steps as t_total, the
\* total that is logged and that sizes the schedule, with max_steps > 0
\* (where t_total is max_steps) and with max_steps = 0.
C21_OptimizerStepsEqualTotal ==
    pc = "done" =>
        /\ counters.opt = t_total
        /\ args.max_steps > 0 => t_total = args.max_steps

\* C22: each value of the global step sees at most one evaluation pass: in
\* the loop one at every positive multiple of logging_steps and no other,
\* and the evaluation at the end of the run is at a global step that was
\* not logged in the loop.
C22_OneEvaluationPerGlobalStep ==
    LET logged == IF args.logging_steps > 0
                  THEN global_step \div args.logging_steps ELSE 0
    IN  /\ (InLoop /\ pc # "done") => counters.evals = logged
        /\ pc = "done" =>
              /\ counters.evals = logged + 1
              /\ last_log.at = global_step
              /\ ~IsLoggingStep(global_step, args.logging_steps)

====
